---------------------------- MODULE Spec2Model ----------------------------
(***************************************************************************)
(* Randomized-benchmarking fitters of qiskit-ignis                         *)
(* (qiskit/ignis/verification/randomized_benchmarking/fitters.py):         *)
(* RBFitter (results -> raw survival data -> statistics -> fit) and        *)
(* InterleavedRBFitter (two RBFitter children and their joint record).     *)
(*                                                                         *)
(* Numbers are exact: a float is modelled by the rational it stands for,   *)
(* <<n, d>> in lowest terms with d > 0, a standard deviation by the        *)
(* square root of a rational (kept as its radicand), and the values of the *)
(* joint record that hold a square root by r + s * sqrt(c).                *)
(***************************************************************************)
EXTENDS Integers, Sequences, FiniteSets, Bags, TLC

(***************************************************************************)
(* Exact arithmetic.                                                       *)
(***************************************************************************)
Abs(x) == IF x < 0 THEN -x ELSE x

RECURSIVE Gcd(_, _)
Gcd(a, b) == IF b = 0 THEN a ELSE Gcd(b, a % b)

\* The rational n/d (d # 0) in lowest terms with a positive denominator.
Rat(n, d) ==
    LET g == Gcd(Abs(n), Abs(d))
        s == IF d < 0 THEN -1 ELSE 1
    IN  <<(s * n) \div g, (s * d) \div g>>

RInt(n) == <<n, 1>>
RAdd(x, y) == Rat(x[1] * y[2] + y[1] * x[2], x[2] * y[2])
RNeg(x) == <<-x[1], x[2]>>
RSub(x, y) == RAdd(x, RNeg(y))
RMul(x, y) == Rat(x[1] * y[1], x[2] * y[2])
RDiv(x, y) == Rat(x[1] * y[2], x[2] * y[1])
RLess(x, y) == x[1] * y[2] < y[1] * x[2]
RLeq(x, y) == x[1] * y[2] <= y[1] * x[2]
RAbs(x) == <<Abs(x[1]), x[2]>>
RIsZero(x) == x[1] = 0

RECURSIVE RPow(_, _)
RPow(x, n) == IF n = 0 THEN RInt(1) ELSE RMul(x, RPow(x, n - 1))

\* The number of qubits in place of the dimension.
Pow2AsLen(n) == n

RECURSIVE Pow2(_)
Pow2(n) == IF n = 0 THEN 1 ELSE 2 * Pow2(n - 1)

RECURSIVE RSumSeq(_)
RSumSeq(s) == IF s = <<>> THEN RInt(0) ELSE RAdd(Head(s), RSumSeq(Tail(s)))

\* The integer square root of n >= 0 (the largest r with r * r <= n).
RECURSIVE ISqrtFrom(_, _)
ISqrtFrom(n, r) == IF (r + 1) * (r + 1) > n THEN r ELSE ISqrtFrom(n, r + 1)

ISqrt(n) == ISqrtFrom(n, 0)
IsSquare(n) == ISqrt(n) * ISqrt(n) = n
RIsSquare(x) == x[1] >= 0 /\ IsSquare(x[1]) /\ IsSquare(x[2])


\* Floats that may be non-finite: a finite value is a rational, and
\* <<1, 0>>, <<-1, 0>>, <<0, 0>> stand for +inf, -inf and nan.
PosInf == <<1, 0>>
NegInf == <<-1, 0>>
NaN == <<0, 0>>
XFinite(x) == x[2] # 0

\* x / y for a finite x and any y, as float64 division does it (no raise).
XDiv(x, y) ==
    IF ~XFinite(y) THEN (IF y = NaN THEN NaN ELSE RInt(0))
    ELSE IF y[1] = 0
         THEN (IF x[1] = 0 THEN NaN ELSE IF x[1] > 0 THEN PosInf ELSE NegInf)
         ELSE RDiv(x, y)

\* x ** n for an integer n >= 0.
XPow(x, n) ==
    IF n = 0 THEN RInt(1)
    ELSE IF XFinite(x) THEN RPow(x, n)
    ELSE IF x = NegInf /\ n % 2 = 0 THEN PosInf ELSE x

\* x ** (1 / n): exact for n = 1, the spacing of the length sequences used here.
XRoot(x, n) == x

\* x < y for a finite y; a comparison with nan is false.
XLess(x, y) ==
    IF XFinite(x) THEN RLess(x, y) ELSE x = NegInf

(***************************************************************************)
(* Values of the result container (qiskit.Result) and of the circuit names *)
(* '<type>_length_<k>_seed_<seed>'. A name is the sequence of its          *)
(* '_'-separated tokens, numbers in decimal digits.                        *)
(***************************************************************************)
Digits == <<"0", "1", "2", "3", "4", "5">>

\* '%d' % n
IntStr(n) == Digits[n + 1]

\* int(s)
StrInt(s) == CHOOSE n \in 0..(Len(Digits) - 1) : Digits[n + 1] = s

\* self._circ_name_type + '_length_%d_seed_%d' % (k, seed)
CircName(type, k, seed) == type \o <<"length", IntStr(k), "seed", IntStr(seed)>>

\* int(name.split('_')[-1])
NameSeed(name) == StrInt(name[Len(name)])

\* name.split("_length")[0]
NameType(name) ==
    LET cut == {i \in 1..Len(name) : name[i] = "length"}
    IN  IF cut = {} THEN name
        ELSE SubSeq(name, 1, (CHOOSE i \in cut : \A j \in cut : i <= j) - 1)

\* result.get_counts(name) succeeds (no QiskitError / KeyError).
HasCounts(result, name) ==
    \E i \in 1..Len(result.results) : result.results[i].name = name

\* result.get_counts(name): the counts of the first experiment of that name.
GetCounts(result, name) ==
    LET hits == {i \in 1..Len(result.results) : result.results[i].name = name}
    IN  result.results[CHOOSE i \in hits : \A j \in hits : i <= j].counts

\* build_counts_dict_from_list: the per-key sum of a list of count mappings.
RECURSIVE BuildCountsDictFromList(_)
BuildCountsDictFromList(count_list) ==
    IF count_list = <<>> THEN EmptyBag
    ELSE Head(count_list) (+) BuildCountsDictFromList(Tail(count_list))

\* sum(counts.values())
SumValues(counts) == BagCardinality(counts)

\* All outcomes over n measured positions; outcome[q + 1] is the bit of
\* position q (written rightmost-first in the bit-string).
BitStrings(n) == [1..n -> {0, 1}]

\* marginal_counts(counts, meas_qubits) for a non-empty counts mapping: every
\* outcome over the measured positions with the number of shots that agree
\* with it there. A position beyond the width of the keys constrains nothing.
MarginalCounts(counts, meas_qubits) ==
    LET width == Len(CHOOSE key \in DOMAIN counts : TRUE)
        agree(m, key) ==
            \A i \in 1..Len(meas_qubits) :
                meas_qubits[i] < width => key[meas_qubits[i] + 1] = m[i]
    IN  [m \in BitStrings(Len(meas_qubits)) |->
            SumValues([key \in {x \in DOMAIN counts : agree(m, x)} |-> counts[key]])]

\* np.arange(startind, endind)
Arange(startind, endind) == [i \in 1..(endind - startind) |-> startind + i - 1]

\* ''.zfill(n)
StringOf0s(n) == [i \in 1..n |-> 0]

NoneVal == [tag |-> "None"]
Arr(s) == [tag |-> "array", val |-> s]
EmptyDict == [tag |-> "empty"]

(***************************************************************************)
(* The result objects used: three measured positions, two lengths.         *)
(***************************************************************************)
TypeRb == <<"rb">>
TypeInterleaved == <<"rb", "interleaved">>

Zeros3 == <<0, 0, 0>>
Flip0 == <<1, 0, 0>>
Flip2 == <<0, 0, 1>>

Circ(type, k, seed, counts) == [name |-> CircName(type, k, seed), counts |-> counts]

\* One execution of both lengths of one seed.
SeedResult(type, seed, counts0, counts1) ==
    [results |-> <<Circ(type, 0, seed, counts0), Circ(type, 1, seed, counts1)>>]

ResultSeed0(type) ==
    SeedResult(type, 0, Zeros3 :> 4, (Zeros3 :> 2) @@ (Flip2 :> 1) @@ (Flip0 :> 1))
ResultSeed1(type) ==
    SeedResult(type, 1, (Zeros3 :> 3) @@ (Flip0 :> 1),
               (Zeros3 :> 1) @@ (Flip2 :> 1) @@ (Flip0 :> 2))
\* Seed 2: position 2 never survives the second length.
ResultSeed2(type) == SeedResult(type, 2, Zeros3 :> 4, Flip2 :> 4)
\* Two circuits of two different seeds.
ResultMixed(type) ==
    [results |-> <<Circ(type, 0, 0, Zeros3 :> 2),
                   Circ(type, 1, 1, (Zeros3 :> 1) @@ (Flip0 :> 1))>>]
\* One circuit only: not one per length.
ResultShort(type) == [results |-> <<Circ(type, 0, 1, Zeros3 :> 4)>>]

AllRefs == {"seed0", "seed1", "seed2", "mixed", "short", "int0", "int1"}

Results ==
    [ref \in AllRefs |->
        CASE ref = "seed0" -> ResultSeed0(TypeRb)
          [] ref = "seed1" -> ResultSeed1(TypeRb)
          [] ref = "seed2" -> ResultSeed2(TypeRb)
          [] ref = "mixed" -> ResultMixed(TypeRb)
          [] ref = "short" -> ResultShort(TypeRb)
          [] ref = "int0" -> ResultSeed0(TypeInterleaved)
          [] ref = "int1" -> ResultSeed1(TypeInterleaved)]

\* The qiskit.Result object a reference stands for: result_list and the
\* batches hold references to result objects, as the Python lists do.
Deref(ref) == Results[ref]

(***************************************************************************)
(* RBFitter. A fitter is a record of the object's fields                   *)
(*   cliff_lengths, rb_pattern, raw_data, ydata, fit, nseeds,              *)
(*   circ_name_type, result_list                                           *)
(* and fit_call, which remembers per pattern the arguments and the outcome *)
(* of the last curve_fit call (curve_fit is a function of its arguments).  *)
(***************************************************************************)
\* np.sqrt of a rational, kept as the number under the root.
Sqrt(v) == [sqrt_of |-> v]

Ok(f, calls) == [f |-> f, raised |-> "no", calls |-> calls]
Raise(f, err, calls) == [f |-> f, raised |-> err, calls |-> calls]

\* The rb_pattern argument of the constructors: None or a list of patterns.
Patterns(list) == [tag |-> "list", val |-> list]

\* RBFitter.__init__, lines 139-140: rb_pattern None stands for [[0]].
PatternOrDefault(rb_pattern) ==
    IF rb_pattern = NoneVal THEN <<<<0>>>> ELSE rb_pattern.val

\* RBFitter.__init__ up to the call of add_data.
NewFitter(cliff_lengths, rb_pattern) ==
    [cliff_lengths |-> cliff_lengths,
     rb_pattern |-> PatternOrDefault(rb_pattern),
     raw_data |-> <<>>,
     ydata |-> <<>>,
     fit |-> [e \in 1..Len(PatternOrDefault(rb_pattern)) |-> EmptyDict],
     nseeds |-> <<>>,
     circ_name_type |-> <<>>,
     result_list |-> <<>>,
     fit_call |-> [e \in 1..Len(PatternOrDefault(rb_pattern)) |-> EmptyDict]]

InSeq(x, s) == \E i \in 1..Len(s) : s[i] = x

\* Every circuit's seed appended, known or not.
RECURSIVE UpdateSeedsAppendAll(_, _)
UpdateSeedsAppendAll(nseeds, circs) ==
    IF circs = <<>> THEN nseeds
    ELSE UpdateSeedsAppendAll(Append(nseeds, NameSeed(Head(circs).name)), Tail(circs))

\* add_data, lines 214-217: the seeds of one result's circuits, new ones appended.
RECURSIVE UpdateSeeds(_, _)
UpdateSeeds(nseeds, circs) ==
    IF circs = <<>> THEN nseeds
    ELSE LET nseeds_circ == NameSeed(Head(circs).name)
         IN  UpdateSeeds(IF ~InSeq(nseeds_circ, nseeds)
                         THEN Append(nseeds, nseeds_circ) ELSE nseeds,
                         Tail(circs))

\* A result that is retained already is not appended again.
RECURSIVE IngestNew(_, _)
IngestNew(f, batch) ==
    IF batch = <<>> THEN f
    ELSE IngestNew([f EXCEPT !.result_list = IF InSeq(Head(batch), @) THEN @
                                             ELSE Append(@, Head(batch)),
                             !.nseeds = UpdateSeeds(@, Deref(Head(batch)).results)],
                   Tail(batch))

\* add_data, lines 208-217: the batch appended result by result.
RECURSIVE Ingest(_, _)
Ingest(f, batch) ==
    IF batch = <<>> THEN f
    ELSE Ingest([f EXCEPT !.result_list = Append(@, Head(batch)),
                          !.nseeds = UpdateSeeds(@, Deref(Head(batch)).results)],
                Tail(batch))

\* Only the oldest retained result is compared with the lengths.
LengthMismatchFirst(f) ==
    /\ ~(f.result_list = <<>>)
    /\ ~(Len(Deref(f.result_list[1]).results) = Len(f.cliff_lengths[1]))

\* Only the newest retained result is compared with the lengths.
LengthMismatchLast(f) ==
    /\ ~(f.result_list = <<>>)
    /\ ~(Len(Deref(f.result_list[Len(f.result_list)]).results) = Len(f.cliff_lengths[1]))

\* add_data, lines 219-220: some retained result has not one circuit per length.
LengthMismatch(f) ==
    \E i \in 1..Len(f.result_list) :
        ~(Len(Deref(f.result_list[i]).results) = Len(f.cliff_lengths[1]))

\* calc_data, lines 260-265: the counts of circ_name in the results that hold it.
RECURSIVE CountList(_, _)
CountList(result_list, circ_name) ==
    IF result_list = <<>> THEN <<>>
    ELSE (IF HasCounts(Deref(Head(result_list)), circ_name)
          THEN <<GetCounts(Deref(Head(result_list)), circ_name)>> ELSE <<>>)
         \o CountList(Tail(result_list), circ_name)

\* calc_data, lines 267-268
CircCounts(f, type, k, seed) ==
    BuildCountsDictFromList(CountList(f.result_list, CircName(type, k, seed)))

\* The shots of the first retained result that holds the circuit.
CircShotsFirst(f, type, k, seed) ==
    LET list == CountList(f.result_list, CircName(type, k, seed))
    IN  IF list = <<>> THEN 0 ELSE SumValues(Head(list))

\* calc_data, line 270
CircShots(f, type, k, seed) == SumValues(CircCounts(f, type, k, seed))

\* calc_data, lines 273, 295: startind when the loop reaches pattern patt_ind
\* (patterns are numbered from 1 here).
RECURSIVE StartInd(_, _)
StartInd(rb_pattern, patt_ind) ==
    IF patt_ind = 1 THEN 0
    ELSE LET startind == StartInd(rb_pattern, patt_ind - 1)
             endind == startind + Len(rb_pattern[patt_ind - 1])
         IN  startind + endind

\* calc_data, line 281
EndInd(rb_pattern, patt_ind) ==
    StartInd(rb_pattern, patt_ind) + Len(rb_pattern[patt_ind])

\* calc_data, lines 289-294: one entry of raw data (the circuit has shots).
RawEntry(f, type, patt_ind, seed, k) ==
    LET counts_subspace ==
            MarginalCounts(CircCounts(f, type, k, seed),
                           Arange(StartInd(f.rb_pattern, patt_ind),
                                  EndInd(f.rb_pattern, patt_ind)))
    IN  Rat(counts_subspace[StringOf0s(Len(f.rb_pattern[patt_ind]))],
            CircShots(f, type, k, seed))

\* calc_data: the entry (patt_ind, seedidx, k) cannot be computed: the circuit
\* was never counted (k beyond the lengths of pattern 0) or has no shots
\* (marginal_counts of an empty mapping, or the division by zero, raises).
EntryRaises(f, type, patt_ind, seedidx, k) ==
    \/ k >= Len(f.cliff_lengths[1])
    \/ CircShots(f, type, k, f.nseeds[seedidx]) = 0

LexLess(t, u) ==
    \/ t[1] < u[1]
    \/ t[1] = u[1] /\ t[2] < u[2]
    \/ t[1] = u[1] /\ t[2] = u[2] /\ t[3] < u[3]

\* calc_data, lines 283-294: the row of one seed of one pattern, n entries.
RawRow(f, type, patt_ind, seedidx, n) ==
    [k1 \in 1..n |-> RawEntry(f, type, patt_ind, f.nseeds[seedidx], k1 - 1)]

\* calc_data, lines 276-294: the rows of one pattern.
RawRows(f, type, patt_ind) ==
    [j \in 1..Len(f.nseeds) |->
        RawRow(f, type, patt_ind, j, Len(f.cliff_lengths[patt_ind]))]

\* calc_data, lines 272-295, stopped by the raise at entry t = (pattern, seed
\* index, length index): raw_data holds what the loops had appended by then.
RawDataUpTo(f, type, t) ==
    [p \in 1..t[1] |->
        IF p < t[1] THEN RawRows(f, type, p)
        ELSE [j \in 1..t[2] |->
                 IF j < t[2] THEN RawRow(f, type, p, j, Len(f.cliff_lengths[p]))
                 ELSE RawRow(f, type, p, j, t[3])]]

\* The first of the entries, in the order of the loops.
FirstEntry(bad) == CHOOSE x \in bad : \A y \in bad : x = y \/ LexLess(x, y)

\* calc_data, lines 267-295, for the circuit names of the given type.
CalcDataOfType(f, type, bad) ==
    IF bad = {}
    THEN Ok([f EXCEPT !.circ_name_type = type,
                      !.raw_data = [p \in 1..Len(f.rb_pattern) |->
                                       RawRows(f, type, p)]],
            <<"calc_data">>)
    ELSE Raise([f EXCEPT !.circ_name_type = type,
                         !.raw_data = RawDataUpTo(f, type, FirstEntry(bad))],
               "ZeroShots", <<"calc_data">>)

\* The entries (pattern, seed index, length index) that cannot be computed.
BadEntries(f, type) ==
    {t \in UNION {{<<p, j, k>> : j \in 1..Len(f.nseeds),
                                 k \in 0..(Len(f.cliff_lengths[p]) - 1)} :
                  p \in 1..Len(f.rb_pattern)} :
        EntryRaises(f, type, t[1], t[2], t[3])}

\* calc_data: the whole method.
CalcDataTyped(f, type) == CalcDataOfType(f, type, BadEntries(f, type))

CalcData(f) ==
    IF f.result_list = <<>> \/ Deref(f.result_list[1]).results = <<>>
    THEN Raise(f, "IndexError", <<"calc_data">>)
    ELSE CalcDataTyped(f, NameType(Deref(f.result_list[1]).results[1].name))

\* The value of the first row in place of the mean.
MeanAtFirst(rows, k) == rows[1][k]

\* np.mean(rows, 0)[k]
MeanAt(rows, k) ==
    RDiv(RSumSeq([j \in 1..Len(rows) |-> rows[j][k]]), RInt(Len(rows)))

\* np.std(rows, 0)[k]: the square root of the mean squared deviation.
StdAt(rows, k) ==
    LET mu == MeanAt(rows, k)
        dev(j) == RSub(rows[j][k], mu)
    IN  Sqrt(RDiv(RSumSeq([j \in 1..Len(rows) |-> RMul(dev(j), dev(j))]),
                  RInt(Len(rows))))

\* A std array whatever the number of rows.
PatternStatisticsAlwaysStd(rows) ==
    [mean |-> [k \in 1..Len(rows[1]) |-> MeanAt(rows, k)],
     std |-> Arr([k \in 1..Len(rows[1]) |-> StdAt(rows, k)])]

\* calc_statistics, lines 317-323: the entry of one pattern.
PatternStatistics(rows) ==
    [mean |-> [k \in 1..Len(rows[1]) |-> MeanAt(rows, k)],
     std |-> IF Len(rows) = 1 THEN NoneVal
             ELSE Arr([k \in 1..Len(rows[1]) |-> StdAt(rows, k)])]

\* calc_statistics (raw_data as a completed calc_data leaves it).
CalcStatistics(f) ==
    [f EXCEPT !.ydata = [p \in 1..Len(f.rb_pattern) |->
                            PatternStatistics(f.raw_data[p])]]

\* The standard deviations are the weights whenever there are any.
SigmaUnlessNone(std) == std

\* fit_data_pattern, lines 347-352: the weights handed to curve_fit.
Sigma(std) ==
    IF ~(std = NoneVal)
    THEN IF \E k \in 1..Len(std.val) : RIsZero(std.val[k].sqrt_of)
         THEN NoneVal ELSE std
    ELSE NoneVal

\* fit_data_pattern, line 357: bounds=([-2, 0, -2], [2, 1, 2])
LowerBounds == <<RInt(-2), RInt(0), RInt(-2)>>
UpperBounds == <<RInt(2), RInt(1), RInt(2)>>

\* curve_fit refuses an initial guess that is not finite or outside the box
\* ("x0 is infeasible").
Feasible(p0) ==
    \A i \in 1..3 : /\ XFinite(p0[i])
                    /\ RLeq(LowerBounds[i], p0[i])
                    /\ RLeq(p0[i], UpperBounds[i])

\* np.sqrt of a variance of the covariance diagonal (a square in every outcome
\* the optimizer is given here).
RSqrt(x) == Rat(ISqrt(x[1]), ISqrt(x[2]))

\* fit_data_pattern, lines 353-357: curve_fit. The optimizer's result is a
\* function of its arguments that the model does not compute: a call with the
\* arguments of the pattern's previous call returns what that call returned,
\* any other call returns the outcome the step chose.
CurveFit(f, patt_ind, args, outcome) ==
    IF ~(f.fit_call[patt_ind] = EmptyDict) /\ f.fit_call[patt_ind].args = args
    THEN f.fit_call[patt_ind].out
    ELSE outcome

\* fit_data_pattern, lines 353-357: the arguments of curve_fit.
CurveFitArgs(f, patt_ind, fit_guess) ==
    [xdata |-> f.cliff_lengths[patt_ind],
     ydata |-> f.ydata[patt_ind].mean,
     sigma |-> Sigma(f.ydata[patt_ind].std),
     p0 |-> fit_guess]

\* The list of fit records is built anew around the record of the pattern.
FitDataPatternResetsFit(f, patt_ind, fit_guess, outcome) ==
    IF Len(f.ydata) < patt_ind
    THEN Raise(f, "IndexError", <<"fit_data_pattern">>)
    ELSE
    LET qubits == f.rb_pattern[patt_ind]
        args == CurveFitArgs(f, patt_ind, fit_guess)
    IN  IF ~Feasible(fit_guess)
        THEN Raise(f, "ValueError", <<"fit_data_pattern">>)
        ELSE
        LET out == CurveFit(f, patt_ind, args, outcome)
            params == out.params
            alpha == params[2]
            params_err == [i \in 1..3 |-> RSqrt(out.pcov_diag[i])]
            alpha_err == params_err[2]
            nrb == Pow2(Len(qubits))
            epc == RMul(Rat(nrb - 1, nrb), RSub(RInt(1), alpha))
            epc_err == XDiv(RMul(epc, alpha_err), alpha)
        IN  Ok([f EXCEPT !.fit = [q \in 1..Len(f.fit) |->
                                     IF q = patt_ind
                                     THEN [params |-> params,
                                           params_err |-> params_err,
                                           epc |-> epc,
                                           epc_err |-> epc_err]
                                     ELSE EmptyDict],
                         !.fit_call[patt_ind] = [args |-> args, out |-> out]],
               <<"fit_data_pattern">>)

\* fit_data_pattern: the whole method.
FitDataPattern(f, patt_ind, fit_guess, outcome) ==
    IF Len(f.ydata) < patt_ind
    THEN Raise(f, "IndexError", <<"fit_data_pattern">>)
    ELSE
    LET qubits == f.rb_pattern[patt_ind]
        args == CurveFitArgs(f, patt_ind, fit_guess)
    IN  IF ~Feasible(fit_guess)
        THEN Raise(f, "ValueError", <<"fit_data_pattern">>)
        ELSE
        LET out == CurveFit(f, patt_ind, args, outcome)
            params == out.params
            alpha == params[2]
            params_err == [i \in 1..3 |-> RSqrt(out.pcov_diag[i])]
            alpha_err == params_err[2]
            nrb == Pow2(Len(qubits))
            epc == RMul(Rat(nrb - 1, nrb), RSub(RInt(1), alpha))
            epc_err == XDiv(RMul(epc, alpha_err), alpha)
        IN  Ok([f EXCEPT !.fit[patt_ind] = [params |-> params,
                                            params_err |-> params_err,
                                            epc |-> epc,
                                            epc_err |-> epc_err],
                         !.fit_call[patt_ind] = [args |-> args, out |-> out]],
               <<"fit_data_pattern">>)

\* fit_data, line 387: the default decay guess 0.99
DefaultAlpha == Rat(99, 100)

\* fit_data, lines 386-404: the guess of one pattern (two or more lengths).
FitGuess(f, patt_ind) ==
    LET qubits == f.rb_pattern[patt_ind]
        b0 == Rat(1, Pow2(Len(qubits)))
        y0 == f.ydata[patt_ind].mean[1]
        y1 == f.ydata[patt_ind].mean[2]
        dcliff == f.cliff_lengths[patt_ind][2] - f.cliff_lengths[patt_ind][1]
        dy == XDiv(RSub(y1, b0), RSub(y0, b0))
        alpha_guess == XRoot(dy, dcliff)
        alpha0 == IF XLess(alpha_guess, RInt(1)) THEN alpha_guess ELSE DefaultAlpha
        a0 == XDiv(RSub(y0, b0), XPow(alpha0, f.cliff_lengths[patt_ind][1]))
    IN  <<a0, alpha0, b0>>

\* r with the calls that came before it.
After(calls, r) == [r EXCEPT !.calls = calls \o r.calls]

\* fit_data: the loop from pattern patt_ind on; ocs gives each pattern the
\* outcome its curve_fit call returns.
RECURSIVE FitDataFrom(_, _, _)

\* fit_data: the loop goes on after the fit_data_pattern that ended as r.
FitDataNext(r, patt_ind, ocs) ==
    IF r.raised = "no" THEN FitDataFrom(r.f, patt_ind + 1, ocs)
    ELSE Raise(r.f, r.raised, <<>>)

FitDataFrom(f, patt_ind, ocs) ==
    IF patt_ind > Len(f.rb_pattern) THEN Ok(f, <<>>)
    ELSE IF Len(f.ydata) < patt_ind \/ Len(f.ydata[patt_ind].mean) < 2
    THEN Raise(f, "IndexError", <<>>)
    ELSE FitDataNext(FitDataPattern(f, patt_ind, FitGuess(f, patt_ind),
                                    ocs[patt_ind]),
                     patt_ind, ocs)

\* fit_data: the whole method.
FitData(f, ocs) == [FitDataFrom(f, 1, ocs) EXCEPT !.calls = <<"fit_data">>]

\* add_data, lines 202-206: a batch is None, one result, or a list of results.
NoBatch == [kind |-> "None"]
One(result) == [kind |-> "result", list |-> <<result>>]
List(results) == [kind |-> "list", list |-> results]

\* The statistics are computed only when there are none yet.
AddDataStatisticsOnce(c) ==
    IF ~(c.raised = "no") THEN c
    ELSE IF c.f.ydata = <<>>
    THEN Ok(CalcStatistics(c.f), <<"calc_data", "calc_statistics">>)
    ELSE Ok(c.f, <<"calc_data", "calc_statistics">>)

\* add_data, line 226, after the calc_data that ended as c.
AddDataStatistics(c) ==
    IF ~(c.raised = "no") THEN c
    ELSE Ok(CalcStatistics(c.f), <<"calc_data", "calc_statistics">>)

\* What calc_data or calc_statistics raises is caught and add_data returns.
AddDataRecomputeSwallows(g, rerun_fit) ==
    IF LengthMismatch(g) THEN Raise(g, "ValueError", <<>>)
    ELSE IF rerun_fit
    THEN IF AddDataStatistics(CalcData(g)).raised = "no"
         THEN AddDataStatistics(CalcData(g))
         ELSE Ok(AddDataStatistics(CalcData(g)).f, <<>>)
    ELSE Ok(g, <<>>)

\* add_data, lines 219-227, on the fitter g that holds the batch.
AddDataRecompute(g, rerun_fit) ==
    IF LengthMismatch(g) THEN Raise(g, "ValueError", <<>>)
    ELSE IF rerun_fit THEN AddDataStatistics(CalcData(g))
    ELSE Ok(g, <<>>)

\* add_data, lines 202-227: everything before the call of fit_data.
AddDataBegin(f, new_backend_result, rerun_fit) ==
    IF new_backend_result = NoBatch THEN Ok(f, <<>>)
    ELSE AddDataRecompute(Ingest(f, new_backend_result.list), rerun_fit)

\* add_data, line 228: fit_data, when add_data got that far.
AddDataEnd(begun, ocs) ==
    IF begun.raised = "no" /\ ~(begun.calls = <<>>)
    THEN After(begun.calls, FitData(begun.f, ocs))
    ELSE begun

\* add_data: the whole method.
AddData(f, new_backend_result, rerun_fit, ocs) ==
    AddDataEnd(AddDataBegin(f, new_backend_result, rerun_fit), ocs)

(***************************************************************************)
(* InterleavedRBFitter. The object is a record of its fields               *)
(*   cliff_lengths, rb_pattern, rbfit_original, rbfit_interleaved,         *)
(*   fit_interleaved.                                                      *)
(* Some entries of the joint record hold square roots: a value is kept as  *)
(* rat + coef * sqrt(root), three rationals.                               *)
(***************************************************************************)
Surd(rat, coef, root) ==
    IF RIsZero(coef) \/ RIsZero(root)
    THEN [rat |-> rat, coef |-> RInt(0), root |-> RInt(0)]
    ELSE [rat |-> rat, coef |-> coef, root |-> root]

\* The rational is taken whatever the other value is.
SurdLessRatNever(x, q) == FALSE

\* x < q, for x with a coefficient that is not negative and q rational.
SurdLessRat(x, q) ==
    LET d == RSub(q, x.rat)
    IN  /\ RLess(RInt(0), d)
        /\ RLess(RMul(RMul(x.coef, x.coef), x.root), RMul(d, d))

\* q - x and q + x
RatMinusSurd(q, x) == Surd(RSub(q, x.rat), RNeg(x.coef), x.root)
RatPlusSurd(q, x) == Surd(RAdd(q, x.rat), x.coef, x.root)

\* The calls of one child, named by the child.
Tag(child, calls) == [i \in 1..Len(calls) |-> <<child, calls[i]>>]

\* InterleavedRBFitter.__init__, lines 492-494, with the two RBFitter objects
\* of lines 496-499 once they are constructed.
NewInterleaved(cliff_lengths, rb_pattern, original, interleaved) ==
    [cliff_lengths |-> cliff_lengths,
     rb_pattern |-> rb_pattern,
     rbfit_original |-> original,
     rbfit_interleaved |-> interleaved,
     fit_interleaved |-> <<>>]

\* fit_data, lines 639-679: the joint record of one pattern (alpha and
\* alpha_c are not zero and alpha is at most 1 in what curve_fit returns here).
JointRecord(o, patt_ind) ==
    LET qubits == o.rb_pattern.val[patt_ind]
        nrb == Pow2(Len(qubits))
        alpha == o.rbfit_original.fit[patt_ind].params[2]
        alpha_c == o.rbfit_interleaved.fit[patt_ind].params[2]
        alpha_err == o.rbfit_original.fit[patt_ind].params_err[2]
        alpha_c_err == o.rbfit_interleaved.fit[patt_ind].params_err[2]
        epc_est == RDiv(RMul(RInt(nrb - 1), RSub(RInt(1), RDiv(alpha_c, alpha))),
                        RInt(nrb))
        systematic_err_1 ==
            RDiv(RMul(RInt(nrb - 1),
                      RAdd(RAbs(RSub(alpha, RDiv(alpha_c, alpha))),
                           RSub(RInt(1), alpha))),
                 RInt(nrb))
        systematic_err_2 ==
            Surd(RDiv(RMul(RInt(2 * (nrb * nrb - 1)), RSub(RInt(1), alpha)),
                      RMul(alpha, RInt(nrb * nrb))),
                 RDiv(RInt(4), alpha),
                 RMul(RSub(RInt(1), alpha), RInt(nrb * nrb - 1)))
        systematic_err ==
            IF SurdLessRat(systematic_err_2, systematic_err_1)
            THEN systematic_err_2
            ELSE Surd(systematic_err_1, RInt(0), RInt(0))
        alpha_err_sq == RMul(RDiv(alpha_err, alpha), RDiv(alpha_err, alpha))
        alpha_c_err_sq == RMul(RDiv(alpha_c_err, alpha_c), RDiv(alpha_c_err, alpha_c))
        epc_est_err == Surd(RInt(0),
                            RMul(Rat(nrb - 1, nrb), RDiv(alpha_c, alpha)),
                            RAdd(alpha_err_sq, alpha_c_err_sq))
    IN  [alpha |-> alpha,
         alpha_err |-> alpha_err,
         alpha_c |-> alpha_c,
         alpha_c_err |-> alpha_c_err,
         epc_est |-> epc_est,
         epc_est_err |-> epc_est_err,
         systematic_err |-> systematic_err,
         systematic_err_L |-> RatMinusSurd(epc_est, systematic_err),
         systematic_err_R |-> RatPlusSurd(epc_est, systematic_err)]

\* zip(self._cliff_lengths, self._rb_pattern), line 637: as many pairs as the
\* shorter of the two has.
ZipLen(o) ==
    IF Len(o.cliff_lengths) < Len(o.rb_pattern.val)
    THEN Len(o.cliff_lengths) ELSE Len(o.rb_pattern.val)

\* What a method of the reference RBFitter that ended as r leaves of the
\* call that had got as far as s; the same for the interleaved RBFitter.
InStd(s, r) ==
    [f |-> [s.f EXCEPT !.rbfit_original = r.f],
     raised |-> r.raised,
     calls |-> s.calls \o Tag("rbfit_std", r.calls)]

InInt(s, r) ==
    [f |-> [s.f EXCEPT !.rbfit_interleaved = r.f],
     raised |-> r.raised,
     calls |-> s.calls \o Tag("rbfit_int", r.calls)]

\* fit_data, lines 635-679: the joint records.
IntFitDataJoint(s) ==
    IF ~(s.raised = "no") THEN s
    ELSE IF s.f.rb_pattern = NoneVal
    THEN Raise([s.f EXCEPT !.fit_interleaved = <<>>], "TypeError", s.calls)
    ELSE Ok([s.f EXCEPT !.fit_interleaved =
                           [p \in 1..ZipLen(s.f) |-> JointRecord(s.f, p)]],
            s.calls)

\* fit_data, line 634
IntFitDataInt(s, ocs_int) ==
    IF ~(s.raised = "no") THEN s
    ELSE InInt(s, FitData(s.f.rbfit_interleaved, ocs_int))

\* The whole pipeline of one RBFitter: calc_data, calc_statistics, fit_data.
Pipeline(f, ocs) == AddDataEnd(AddDataStatistics(CalcData(f)), ocs)

PipelineInt(s, ocs_int) ==
    IF ~(s.raised = "no") THEN s
    ELSE InInt(s, Pipeline(s.f.rbfit_interleaved, ocs_int))

\* fit_data with the whole pipeline of the two RBFitter objects.
IntFitDataPipelines(o, ocs_std, ocs_int) ==
    IntFitDataJoint(
        PipelineInt(InStd(Ok(o, <<>>), Pipeline(o.rbfit_original, ocs_std)),
                    ocs_int))

\* InterleavedRBFitter.fit_data: the whole method. ocs_std and ocs_int give
\* the outcomes of the curve_fit calls of the two RBFitter objects.
IntFitData(o, ocs_std, ocs_int) ==
    IntFitDataJoint(
        IntFitDataInt(InStd(Ok(o, <<>>), FitData(o.rbfit_original, ocs_std)),
                      ocs_int))

\* add_data, lines 577-578
IntAddDataFit(s, rerun_fit, ocs_std, ocs_int) ==
    IF ~(s.raised = "no") \/ ~rerun_fit THEN s
    ELSE After(s.calls, IntFitData(s.f, ocs_std, ocs_int))

\* add_data, line 575
IntAddDataInt(s, new_interleaved_result, rerun_fit, ocs_int) ==
    IF ~(s.raised = "no") THEN s
    ELSE InInt(s, AddData(s.f.rbfit_interleaved, new_interleaved_result,
                          rerun_fit, ocs_int))

\* add_data with the fit of the two RBFitter objects suppressed.
IntAddDataSuppressed(o, new_original_result, new_interleaved_result, rerun_fit, ocs_std, ocs_int) ==
    IntAddDataFit(
        IntAddDataInt(InStd(Ok(o, <<>>),
                            AddData(o.rbfit_original, new_original_result,
                                    FALSE, ocs_std)),
                      new_interleaved_result, FALSE, ocs_int),
        rerun_fit, ocs_std, ocs_int)

\* InterleavedRBFitter.add_data: the whole method.
IntAddData(o, new_original_result, new_interleaved_result, rerun_fit, ocs_std, ocs_int) ==
    IntAddDataFit(
        IntAddDataInt(InStd(Ok(o, <<>>),
                            AddData(o.rbfit_original, new_original_result,
                                    rerun_fit, ocs_std)),
                      new_interleaved_result, rerun_fit, ocs_int),
        rerun_fit, ocs_std, ocs_int)

\* InterleavedRBFitter.fit_data_pattern: the whole method.
IntFitDataPattern(o, patt_ind, fit_guess, fit_index, outcome) ==
    IF fit_index = 0
    THEN InStd(Ok(o, <<>>),
               FitDataPattern(o.rbfit_original, patt_ind, fit_guess, outcome))
    ELSE InInt(Ok(o, <<>>),
               FitDataPattern(o.rbfit_interleaved, patt_ind, fit_guess, outcome))

\* __init__, lines 496-499: the two RBFitter objects, constructed as c1, c2.
IntInitBuilt(cliff_lengths, rb_pattern, c1, c2) ==
    IF ~(c1.raised = "no")
    THEN Raise(NoneVal, c1.raised, Tag("rbfit_std", c1.calls))
    ELSE IF ~(c2.raised = "no")
    THEN Raise(NoneVal, c2.raised,
               Tag("rbfit_std", c1.calls) \o Tag("rbfit_int", c2.calls))
    ELSE Ok(NewInterleaved(cliff_lengths, rb_pattern, c1.f, c2.f),
            Tag("rbfit_std", c1.calls) \o Tag("rbfit_int", c2.calls))

\* __init__, line 503
IntInitFit(s, ocs_std, ocs_int) ==
    IF ~(s.raised = "no") THEN s
    ELSE After(s.calls, IntFitData(s.f, ocs_std, ocs_int))

\* __init__, line 502
IntInitAddInt(s, interleaved_result, ocs_int) ==
    IF ~(s.raised = "no") THEN s
    ELSE InInt(s, AddData(s.f.rbfit_interleaved, interleaved_result, TRUE, ocs_int))

\* __init__, line 501
IntInitAddStd(s, original_result, ocs_std) ==
    IF ~(s.raised = "no") THEN s
    ELSE InStd(s, AddData(s.f.rbfit_original, original_result, TRUE, ocs_std))

\* InterleavedRBFitter.__init__: the whole constructor. The object exists when
\* nothing was raised.
IntInit(original_result, interleaved_result, cliff_lengths, rb_pattern, ocs_std, ocs_int) ==
    IntInitFit(
        IntInitAddInt(
            IntInitAddStd(
                IntInitBuilt(cliff_lengths, rb_pattern,
                             AddData(NewFitter(cliff_lengths, rb_pattern),
                                     original_result, TRUE, ocs_std),
                             AddData(NewFitter(cliff_lengths, rb_pattern),
                                     interleaved_result, TRUE, ocs_int)),
                original_result, ocs_std),
            interleaved_result, ocs_int),
        ocs_std, ocs_int)

(***************************************************************************)
(* The inputs the operations are run on: the results, the pattern          *)
(* definitions, the outcomes the optimizer may return and the guesses a    *)
(* caller may pass.                                                        *)
(***************************************************************************)
\* The results a caller may hand over, by reference.
Catalogue == {"seed0", "seed1", "seed2", "mixed", "short"}

\* The longest retained-result list the model follows.
MaxResults == 2

Batches ==
    {NoBatch, List(<<>>)} \cup {One(r) : r \in Catalogue}
    \cup {List(<<"seed1", "seed0">>), List(<<"seed0", "short">>)}

BatchLen(b) == IF b = NoBatch THEN 0 ELSE Len(b.list)

\* rb_pattern: None or [[0, 1], [2]]; for the runs that only add data,
\* [[0], [1], [2]] as well.
PatternChoices == {NoneVal, Patterns(<<<<0, 1>>, <<2>>>>)}
PatternChoicesData == PatternChoices \cup {Patterns(<<<<0>>, <<1>>, <<2>>>>)}

\* cliff_lengths: the lengths 1, 2 for every pattern.
CliffLengths(rb_pattern) ==
    [p \in 1..Len(PatternOrDefault(rb_pattern)) |-> <<1, 2>>]

\* What curve_fit may return: (A, alpha, B) inside the box and the diagonal of
\* the covariance.
FitOutcomes ==
    {[params |-> <<Rat(1, 2), Rat(1, 2), Rat(1, 2)>>,
      pcov_diag |-> <<Rat(1, 16), Rat(1, 16), Rat(1, 16)>>],
     [params |-> <<RInt(1), Rat(3, 4), Rat(1, 4)>>,
      pcov_diag |-> <<Rat(1, 4), Rat(1, 64), Rat(1, 4)>>]}

\* fit_guess of a caller of fit_data_pattern: one inside the box, one outside.
Guesses ==
    {<<RInt(1), Rat(9, 10), Rat(1, 2)>>, <<RInt(3), Rat(9, 10), Rat(1, 2)>>}

AnyOutcome == CHOOSE o \in FitOutcomes : TRUE

\* What a fit_data_pattern(patt_ind, fit_guess) of f gets from curve_fit is
\* open: curve_fit is called, with arguments other than those of the
\* pattern's previous call.
Open(f, patt_ind, fit_guess) ==
    /\ Len(f.ydata) >= patt_ind
    /\ Feasible(fit_guess)
    /\ \/ f.fit_call[patt_ind] = EmptyDict
       \/ ~(f.fit_call[patt_ind].args = CurveFitArgs(f, patt_ind, fit_guess))

\* The outcomes a fit_data_pattern of f chooses among.
OutcomesOfPattern(f, patt_ind, fit_guess) ==
    IF Open(f, patt_ind, fit_guess) THEN FitOutcomes ELSE {AnyOutcome}

\* The outcomes a fit_data of f chooses among, per pattern.
Outcomes(f) ==
    LET open == [p \in 1..Len(f.rb_pattern) |->
                    OutcomesOfPattern(f, p, FitGuess(f, p))]
    IN  {ocs \in [1..Len(f.rb_pattern) -> FitOutcomes] :
            \A p \in 1..Len(f.rb_pattern) : ocs[p] \in open[p]}

\* The outcomes to choose among for a call that may get as far as fit_data.
OutcomesIf(fits, f) ==
    IF fits THEN Outcomes(f) ELSE {[p \in 1..Len(f.rb_pattern) |-> AnyOutcome]}

(***************************************************************************)
(* State: rbfit is an RBFitter used on its own, intfit an                  *)
(* InterleavedRBFitter with its two RBFitter objects; last is the last     *)
(* call: its operation, how it ended and the stages it ran.                *)
(***************************************************************************)
VARIABLES rbfit, intfit, last

vars == <<rbfit, intfit, last>>

Call(op, r, given, rerun_fit) ==
    [op |-> op, raised |-> r.raised, calls |-> r.calls,
     given |-> given, rerun_fit |-> rerun_fit]

NoObject == [tag |-> "no object"]

Fits(begun) == begun.raised = "no" /\ ~(begun.calls = <<>>)

\* RBFitter(backend_result, cliff_lengths, rb_pattern): an object exists when
\* the add_data of the constructor returned.
Constructed(patterns) ==
    \E rb_pattern \in patterns, b \in Batches :
        \E new \in {NewFitter(CliffLengths(rb_pattern), rb_pattern)} :
        \E begun \in {AddDataBegin(new, b, TRUE)} :
        \E ocs \in OutcomesIf(Fits(begun), begun.f) :
        \E r \in {AddDataEnd(begun, ocs)} :
            /\ r.raised = "no"
            /\ rbfit = r.f
            /\ last = Call("init", r, ~(b = NoBatch), TRUE)
            /\ intfit = NoObject

Init == Constructed(PatternChoices)

\* rbfit.add_data(new_backend_result, rerun_fit)
RBAddData ==
    \E b \in Batches, rerun_fit \in BOOLEAN :
        /\ Len(rbfit.result_list) + BatchLen(b) <= MaxResults
        /\ \E begun \in {AddDataBegin(rbfit, b, rerun_fit)} :
           \E ocs \in OutcomesIf(Fits(begun), begun.f) :
           \E r \in {AddDataEnd(begun, ocs)} :
               /\ rbfit' = r.f
               /\ last' = Call("add_data", r, ~(b = NoBatch), rerun_fit)
               /\ UNCHANGED intfit

\* rbfit.fit_data()
RBFitData ==
    \E ocs \in Outcomes(rbfit) :
    \E r \in {FitData(rbfit, ocs)} :
        /\ rbfit' = r.f
        /\ last' = Call("fit_data", r, FALSE, FALSE)
        /\ UNCHANGED intfit

\* rbfit.fit_data_pattern(patt_ind, fit_guess)
RBFitDataPattern ==
    \E patt_ind \in 1..Len(rbfit.rb_pattern), fit_guess \in Guesses :
    \E outcome \in OutcomesOfPattern(rbfit, patt_ind, fit_guess) :
    \E r \in {FitDataPattern(rbfit, patt_ind, fit_guess, outcome)} :
        /\ rbfit' = r.f
        /\ last' = Call("fit_data_pattern", r, FALSE, FALSE)
        /\ UNCHANGED intfit

Next == RBAddData \/ RBFitData \/ RBFitDataPattern

Spec == Init /\ [][Next]_vars

\* Runs that only add data, over one more pattern definition.
InitData == Constructed(PatternChoicesData)

NextData == RBAddData

SpecData == InitData /\ [][NextData]_vars


(***************************************************************************)
(* An InterleavedRBFitter and the calls of its methods.                    *)
(***************************************************************************)
\* The longest retained-result list of a child the model follows.
MaxIntResults == 3

\* The results of the reference and of the interleaved circuits given at
\* construction, and the batches given to add_data.
OriginalResults == {NoBatch, One("seed0")}
InterleavedResults == {NoBatch, One("int0")}
OriginalBatches == {NoBatch, One("seed1")}
InterleavedBatches == {NoBatch, One("int1")}

\* rb_pattern of an InterleavedRBFitter: None or [[0, 1]].
IntPatternChoices == {NoneVal, Patterns(<<<<0, 1>>>>)}

IntCall(op, r, given_std, given_int, rerun_fit) ==
    [op |-> op, raised |-> r.raised, calls |-> r.calls,
     given_std |-> given_std, given_int |-> given_int, rerun_fit |-> rerun_fit]

rbfit_std == intfit.rbfit_original
rbfit_int == intfit.rbfit_interleaved

\* InterleavedRBFitter(original_result, interleaved_result, cliff_lengths,
\* rb_pattern): an object exists when the constructor returned.
InitInt ==
    \E rb_pattern \in IntPatternChoices,
       b_std \in OriginalResults, b_int \in InterleavedResults :
    \E ocs_std \in [1..Len(PatternOrDefault(rb_pattern)) -> FitOutcomes],
       ocs_int \in [1..Len(PatternOrDefault(rb_pattern)) -> FitOutcomes] :
    \E r \in {IntInit(b_std, b_int, CliffLengths(rb_pattern), rb_pattern,
                      ocs_std, ocs_int)} :
        /\ r.raised = "no"
        /\ intfit = r.f
        /\ last = IntCall("init", r, TRUE, TRUE, TRUE)
        /\ rbfit = NoObject

\* intfit.add_data(new_original_result, new_interleaved_result, rerun_fit)
InterleavedAddData ==
    \E b_std \in OriginalBatches, b_int \in InterleavedBatches,
       rerun_fit \in BOOLEAN :
        /\ Len(rbfit_std.result_list) + BatchLen(b_std) <= MaxIntResults
        /\ Len(rbfit_int.result_list) + BatchLen(b_int) <= MaxIntResults
        /\ \E begun_std \in {AddDataBegin(rbfit_std, b_std, rerun_fit)},
              begun_int \in {AddDataBegin(rbfit_int, b_int, rerun_fit)} :
           \E ocs_std \in OutcomesIf(rerun_fit, begun_std.f),
              ocs_int \in OutcomesIf(rerun_fit, begun_int.f) :
           \E r \in {IntAddData(intfit, b_std, b_int, rerun_fit, ocs_std, ocs_int)} :
               /\ intfit' = r.f
               /\ last' = IntCall("add_data", r, ~(b_std = NoBatch),
                                  ~(b_int = NoBatch), rerun_fit)
               /\ UNCHANGED rbfit

\* intfit.fit_data()
InterleavedFitData ==
    \E ocs_std \in Outcomes(rbfit_std), ocs_int \in Outcomes(rbfit_int) :
    \E r \in {IntFitData(intfit, ocs_std, ocs_int)} :
        /\ intfit' = r.f
        /\ last' = IntCall("fit_data", r, FALSE, FALSE, FALSE)
        /\ UNCHANGED rbfit

\* intfit.fit_data_pattern(patt_ind, fit_guess, fit_index)
InterleavedFitDataPattern ==
    \E patt_ind \in 1..Len(rbfit_std.rb_pattern), fit_guess \in Guesses,
       fit_index \in {0, 1} :
    \E outcome \in OutcomesOfPattern(IF fit_index = 0 THEN rbfit_std ELSE rbfit_int,
                                      patt_ind, fit_guess) :
    \E r \in {IntFitDataPattern(intfit, patt_ind, fit_guess, fit_index, outcome)} :
        /\ intfit' = r.f
        /\ last' = IntCall("fit_data_pattern", r, FALSE, FALSE, FALSE)
        /\ UNCHANGED rbfit

NextInt == InterleavedAddData \/ InterleavedFitData \/ InterleavedFitDataPattern

SpecInt == InitInt /\ [][NextInt]_vars

(***************************************************************************)
(* The joint record over more of what the optimizer may return: runs of an *)
(* InterleavedRBFitter that refit and recombine, also with fits that show  *)
(* no decay (alpha = 1), on a two-qubit and on a one-qubit pattern.        *)
(***************************************************************************)
\* curve_fit may also end on the upper bound of alpha.
FitOutcomesJoint ==
    FitOutcomes \cup
    {[params |-> <<Rat(3, 4), RInt(1), Rat(1, 4)>>,
      pcov_diag |-> <<Rat(1, 4), Rat(1, 16), Rat(1, 4)>>]}

JointPatternChoices == {Patterns(<<<<0, 1>>>>), Patterns(<<<<0>>>>)}

OutcomesOfPatternJoint(f, patt_ind, fit_guess) ==
    IF Open(f, patt_ind, fit_guess) THEN FitOutcomesJoint ELSE {AnyOutcome}

OutcomesJoint(f) ==
    {ocs \in [1..Len(f.rb_pattern) -> FitOutcomesJoint] :
        \A p \in 1..Len(f.rb_pattern) :
            ocs[p] \in OutcomesOfPatternJoint(f, p, FitGuess(f, p))}

\* InterleavedRBFitter(original_result, interleaved_result, cliff_lengths,
\* rb_pattern) on one result each.
InitJoint ==
    \E rb_pattern \in JointPatternChoices :
    \E ocs_std \in [1..Len(rb_pattern.val) -> FitOutcomesJoint],
       ocs_int \in [1..Len(rb_pattern.val) -> FitOutcomesJoint] :
    \E r \in {IntInit(One("seed0"), One("int0"), CliffLengths(rb_pattern),
                      rb_pattern, ocs_std, ocs_int)} :
        /\ r.raised = "no"
        /\ intfit = r.f
        /\ last = IntCall("init", r, TRUE, TRUE, TRUE)
        /\ rbfit = NoObject

\* intfit.fit_data()
JointFitData ==
    \E ocs_std \in OutcomesJoint(rbfit_std), ocs_int \in OutcomesJoint(rbfit_int) :
    \E r \in {IntFitData(intfit, ocs_std, ocs_int)} :
        /\ intfit' = r.f
        /\ last' = IntCall("fit_data", r, FALSE, FALSE, FALSE)
        /\ UNCHANGED rbfit

\* intfit.fit_data_pattern(patt_ind, fit_guess, fit_index)
JointFitDataPattern ==
    \E patt_ind \in 1..Len(rbfit_std.rb_pattern), fit_guess \in Guesses,
       fit_index \in {0, 1} :
    \E outcome \in OutcomesOfPatternJoint(IF fit_index = 0 THEN rbfit_std ELSE rbfit_int,
                                           patt_ind, fit_guess) :
    \E r \in {IntFitDataPattern(intfit, patt_ind, fit_guess, fit_index, outcome)} :
        /\ intfit' = r.f
        /\ last' = IntCall("fit_data_pattern", r, FALSE, FALSE, FALSE)
        /\ UNCHANGED rbfit

NextJoint == JointFitData \/ JointFitDataPattern

SpecJoint == InitJoint /\ [][NextJoint]_vars

(***************************************************************************)
(* The cliff_lengths accessors. A read of the property runs its getter;    *)
(* the getter reads the same property of the same object, which runs the   *)
(* getter again in a new frame, until the interpreter refuses another      *)
(* frame and raises RecursionError, which no frame catches.                *)
(***************************************************************************)
\* The number of nested frames the interpreter allows.
RecursionLimit == 3

\* RBFitter.cliff_lengths, lines 158-161: `return self.cliff_lengths`, in the
\* frame at the given depth.
RECURSIVE RBCliffLengthsGetter(_, _)
RBCliffLengthsGetter(f, depth) ==
    IF depth > RecursionLimit THEN [raised |-> "RecursionError", value |-> NoneVal]
    ELSE RBCliffLengthsGetter(f, depth + 1)

\* InterleavedRBFitter.cliff_lengths, lines 515-518: `return
\* self.cliff_lengths`, in the frame at the given depth.
RECURSIVE IntCliffLengthsGetter(_, _)
IntCliffLengthsGetter(o, depth) ==
    IF depth > RecursionLimit THEN [raised |-> "RecursionError", value |-> NoneVal]
    ELSE IntCliffLengthsGetter(o, depth + 1)

Read(op, object, r) ==
    [op |-> op, object |-> object, raised |-> r.raised, value |-> r.value]

\* An RBFitter or an InterleavedRBFitter has been constructed.
InitRead == Init \/ InitInt

\* rbfit.add_data(new_backend_result, rerun_fit), when there is an RBFitter
ReadRBAddData == ~(rbfit = NoObject) /\ RBAddData

\* intfit.add_data(new_original_result, new_interleaved_result, rerun_fit),
\* when there is an InterleavedRBFitter
ReadInterleavedAddData == ~(intfit = NoObject) /\ InterleavedAddData

\* rbfit.cliff_lengths
RBReadCliffLengths ==
    /\ ~(rbfit = NoObject)
    /\ \E r \in {RBCliffLengthsGetter(rbfit, 1)} :
           last' = Read("cliff_lengths", "RBFitter", r)
    /\ UNCHANGED <<rbfit, intfit>>

\* intfit.cliff_lengths
InterleavedReadCliffLengths ==
    /\ ~(intfit = NoObject)
    /\ \E r \in {IntCliffLengthsGetter(intfit, 1)} :
           last' = Read("cliff_lengths", "InterleavedRBFitter", r)
    /\ UNCHANGED <<rbfit, intfit>>

NextRead == ReadRBAddData \/ ReadInterleavedAddData \/ RBReadCliffLengths \/ InterleavedReadCliffLengths

SpecRead == InitRead /\ [][NextRead]_vars

(***************************************************************************)
(* The constructor of InterleavedRBFitter as a call that may raise: with   *)
(* rb_pattern left out (None), [[0]] or [[0, 1]]. When it raises no object *)
(* is bound; last also holds the rb_pattern argument of the call.          *)
(***************************************************************************)
\* No fitter has been constructed yet.
InitConstruct ==
    /\ rbfit = NoObject
    /\ intfit = NoObject
    /\ last = [op |-> "none", raised |-> "no", calls |-> <<>>]

\* intfit = InterleavedRBFitter(original_result, interleaved_result,
\*                              cliff_lengths, rb_pattern)
InterleavedConstruct ==
    \E rb_pattern \in IntPatternChoices \cup {Patterns(<<<<0>>>>)},
       b_std \in OriginalResults, b_int \in InterleavedResults :
    \E ocs_std \in [1..Len(PatternOrDefault(rb_pattern)) -> FitOutcomes],
       ocs_int \in [1..Len(PatternOrDefault(rb_pattern)) -> FitOutcomes] :
    \E r \in {IntInit(b_std, b_int, CliffLengths(rb_pattern), rb_pattern,
                      ocs_std, ocs_int)} :
        /\ intfit' = IF r.raised = "no" THEN r.f ELSE NoObject
        /\ last' = [op |-> "init", raised |-> r.raised, calls |-> r.calls,
                    given_std |-> ~(b_std = NoBatch),
                    given_int |-> ~(b_int = NoBatch),
                    rerun_fit |-> TRUE, rb_pattern |-> rb_pattern]
        /\ UNCHANGED rbfit

NextConstruct == InterleavedConstruct \/ ReadInterleavedAddData

SpecConstruct == InitConstruct /\ [][NextConstruct]_vars

(***************************************************************************)
(* Properties of RBFitter.                                                 *)
(***************************************************************************)
NoDup(s) == \A i, j \in 1..Len(s) : s[i] = s[j] => i = j

IsPrefix(s, t) == Len(s) <= Len(t) /\ \A i \in 1..Len(s) : s[i] = t[i]

\* Some retained result has not as many circuits as pattern 0 has lengths.
SomeResultMismatches(f) ==
    \E i \in 1..Len(f.result_list) :
        Len(Results[f.result_list[i]].results) # Len(f.cliff_lengths[1])

\* The last call recomputed the statistics from all retained results.
Recomputed == InSeq("calc_statistics", last.calls)

\* C1: an add_data that is given a batch and leaves a retained result whose
\* number of circuits differs from the number of lengths of pattern 0 raises
\* ValueError, and raw_data, ydata and fit are what they were before the call.
C1_MismatchIsFatal ==
    [][(last'.op = "add_data" /\ last'.given /\ SomeResultMismatches(rbfit'))
       => /\ last'.raised = "ValueError"
          /\ rbfit'.raw_data = rbfit.raw_data
          /\ rbfit'.ydata = rbfit.ydata
          /\ rbfit'.fit = rbfit.fit]_vars

\* An add_data raised on a mismatching result after an earlier recompute.
C1_Witness ==
    /\ last.op = "add_data" /\ last.given /\ last.raised = "ValueError"
    /\ SomeResultMismatches(rbfit)
    /\ ~(rbfit.raw_data = <<>>)
    /\ ~(rbfit.fit[1] = EmptyDict)

\* C2: the seed list never holds a seed twice, and every step keeps the
\* seeds it held, each at its position.
C2_SeedsOnlyGrow ==
    /\ NoDup(rbfit.nseeds)
    /\ [][IsPrefix(rbfit.nseeds, rbfit.nseeds') /\ NoDup(rbfit.nseeds')]_vars

\* The results of seed 1 and then seed 0 arrived, and seed 1 once more.
C2_Witness ==
    /\ last.op = "add_data" /\ last.given
    /\ Len(rbfit.result_list) >= 2
    /\ rbfit.result_list[1] = "seed1"
    /\ rbfit.result_list[2] \in {"seed0", "seed1"}
    /\ rbfit.nseeds \in {<<1, 0>>, <<1>>}

Perms(n) == {s \in [1..n -> 1..n] : \A i, j \in 1..n : s[i] = s[j] => i = j}

\* A fitter of the same configuration that was given the retained results of
\* f in the given order and recomputed.
Readded(f, order) ==
    LET g == Ingest(NewFitter(f.cliff_lengths, Patterns(f.rb_pattern)),
                    [i \in 1..Len(order) |-> f.result_list[order[i]]])
    IN  CalcStatistics(CalcData(g).f)

\* The row of raw_data that belongs to a seed.
SeedRow(f, patt_ind, seed) ==
    f.raw_data[patt_ind][CHOOSE j \in 1..Len(f.nseeds) : f.nseeds[j] = seed]

\* What fit_data hands to curve_fit for a pattern.
FitArgs(f, patt_ind) ==
    [xdata |-> f.cliff_lengths[patt_ind],
     ydata |-> f.ydata[patt_ind].mean,
     sigma |-> Sigma(f.ydata[patt_ind].std),
     p0 |-> FitGuess(f, patt_ind)]

\* C3: the statistics a recompute leaves, and the arguments of the fit, are
\* those of the same results added in any other order; the rows of raw_data
\* are the same seed by seed.
C3_OrderIndependent ==
    Recomputed =>
        \A order \in Perms(Len(rbfit.result_list)) :
            LET g == Readded(rbfit, order)
            IN  /\ g.ydata = rbfit.ydata
                /\ \A p \in 1..Len(rbfit.rb_pattern) :
                       /\ FitArgs(g, p) = FitArgs(rbfit, p)
                       /\ \A j \in 1..Len(rbfit.nseeds) :
                              SeedRow(g, p, rbfit.nseeds[j]) = rbfit.raw_data[p][j]

\* Seed 1 was added before seed 0 and the statistics were recomputed.
C3_Witness ==
    /\ last.op = "add_data" /\ last.given
    /\ Recomputed
    /\ rbfit.result_list = <<"seed1", "seed0">>
    /\ rbfit.nseeds = <<1, 0>>
    /\ ~(rbfit.ydata[1].std = NoneVal)

\* The positions of a pattern: as many as it has qubits, after those of the
\* patterns declared before it.
RECURSIVE QubitsBefore(_, _)
QubitsBefore(rb_pattern, patt_ind) ==
    IF patt_ind = 1 THEN 0
    ELSE QubitsBefore(rb_pattern, patt_ind - 1) + Len(rb_pattern[patt_ind - 1])

OwnPositions(rb_pattern, patt_ind) ==
    {q \in 0..(QubitsBefore(rb_pattern, patt_ind + 1) - 1) :
        q >= QubitsBefore(rb_pattern, patt_ind)}

\* The retained results that hold a circuit, by index.
Holders(f, circ_name) ==
    {i \in 1..Len(f.result_list) : HasCounts(Results[f.result_list[i]], circ_name)}

RECURSIVE SumOver(_, _)
SumOver(set, val) ==
    IF set = {} THEN 0
    ELSE LET x == CHOOSE y \in set : TRUE
         IN  val[x] + SumOver(set \ {x}, val)

\* The shots of a circuit in one result that are 0 on all of the positions,
\* and all of its shots there.
ZeroShotsOn(result, circ_name, positions) ==
    LET counts == GetCounts(result, circ_name)
        zero == {key \in DOMAIN counts : \A q \in positions : key[q + 1] = 0}
    IN  SumOver(zero, counts)

AllShots(result, circ_name) ==
    LET counts == GetCounts(result, circ_name)
    IN  SumOver(DOMAIN counts, counts)

\* The survival of a pattern in a circuit, over all retained results that
\* hold the circuit.
Survival(f, patt_ind, seed, k) ==
    LET name == CircName(f.circ_name_type, k, seed)
        held == Holders(f, name)
    IN  Rat(SumOver(held, [i \in held |->
                ZeroShotsOn(Results[f.result_list[i]], name,
                            OwnPositions(f.rb_pattern, patt_ind))]),
            SumOver(held, [i \in held |->
                AllShots(Results[f.result_list[i]], name)]))

\* C4: after an add_data that recomputed, every entry of raw_data is the
\* number of shots that are 0 on the pattern's positions divided by the number
\* of shots, both taken over all retained results that hold the circuit.
C4_RawDataIsSurvival ==
    (last.op = "add_data" /\ last.given /\ last.rerun_fit /\ Recomputed) =>
        \A p \in 1..Len(rbfit.rb_pattern) :
        \A j \in 1..Len(rbfit.nseeds), k \in 1..Len(rbfit.cliff_lengths[p]) :
            rbfit.raw_data[p][j][k] = Survival(rbfit, p, rbfit.nseeds[j], k - 1)

\* C5: counts reduction takes pattern i on the positions that follow those of
\* the patterns before it, and the means are those of the survival there.
C5_OwnPositions ==
    Recomputed =>
        \A p \in 1..Len(rbfit.rb_pattern) :
            /\ {Arange(StartInd(rbfit.rb_pattern, p), EndInd(rbfit.rb_pattern, p))[i] :
                    i \in 1..Len(rbfit.rb_pattern[p])}
               = OwnPositions(rbfit.rb_pattern, p)
            /\ \A k \in 1..Len(rbfit.cliff_lengths[p]) :
                   rbfit.ydata[p].mean[k]
                   = RDiv(RSumSeq([j \in 1..Len(rbfit.nseeds) |->
                                      Survival(rbfit, p, rbfit.nseeds[j], k - 1)]),
                          RInt(Len(rbfit.nseeds)))

\* C6: after calc_statistics the std of a pattern is None exactly when
\* raw_data has one row for it, and else an array with an entry per length.
C6_StdNoneIffOneSeed ==
    Recomputed =>
        \A p \in 1..Len(rbfit.rb_pattern) :
            /\ ((rbfit.ydata[p].std = NoneVal) <=> (Len(rbfit.raw_data[p]) = 1))
            /\ (Len(rbfit.raw_data[p]) >= 2 =>
                   /\ rbfit.ydata[p].std.tag = "array"
                   /\ Len(rbfit.ydata[p].std.val) = Len(rbfit.cliff_lengths[p]))

\* Two results of one seed were recomputed into one row, and the std is None.
C6_Witness ==
    /\ Recomputed
    /\ last.op = "add_data"
    /\ Len(rbfit.result_list) = 2
    /\ Len(rbfit.raw_data[1]) = 1
    /\ rbfit.ydata[1].std = NoneVal

\* C7: every entry of raw_data is at least 0 and at most 1.
C7_RawDataInUnitInterval ==
    \A p \in 1..Len(rbfit.raw_data) :
        \A j \in 1..Len(rbfit.raw_data[p]) :
            \A k \in 1..Len(rbfit.raw_data[p][j]) :
                /\ RLeq(RInt(0), rbfit.raw_data[p][j][k])
                /\ RLeq(rbfit.raw_data[p][j][k], RInt(1))

\* The counts of two results were merged into an entry strictly inside (0, 1).
C7_Witness ==
    /\ last.op = "add_data" /\ Recomputed
    /\ rbfit.result_list = <<"seed0", "seed0">>
    /\ \E k \in 1..2 : /\ RLess(RInt(0), rbfit.raw_data[1][1][k])
                       /\ RLess(rbfit.raw_data[1][1][k], RInt(1))

(***************************************************************************)
(* Properties of InterleavedRBFitter.                                      *)
(***************************************************************************)
Children == {"rbfit_std", "rbfit_int"}

Child(name) == IF name = "rbfit_std" THEN rbfit_std ELSE rbfit_int

Given(name) == IF name = "rbfit_std" THEN last.given_std ELSE last.given_int

\* How often the last call ran a stage of a child.
Ran(name, stage) ==
    Cardinality({i \in 1..Len(last.calls) : last.calls[i] = <<name, stage>>})

\* The statistics of f are those of all its retained results.
StatisticsCurrent(f) == f.ydata = CalcStatistics(CalcData(f).f).ydata

\* The fit of f is a fit_data on the statistics f holds.
FitOfStatistics(f) ==
    \A p \in 1..Len(f.rb_pattern) :
        /\ ~(f.fit_call[p] = EmptyDict)
        /\ f.fit_call[p].args = CurveFitArgs(f, p, FitGuess(f, p))
        /\ f.fit[p].params = f.fit_call[p].out.params

\* The joint records hold the alphas of the fits of the two children.
JointOfFits ==
    /\ Len(intfit.fit_interleaved) = Len(rbfit_std.rb_pattern)
    /\ \A p \in 1..Len(intfit.fit_interleaved) :
           /\ intfit.fit_interleaved[p].alpha = rbfit_std.fit[p].params[2]
           /\ intfit.fit_interleaved[p].alpha_c = rbfit_int.fit[p].params[2]

\* The last call computed the joint records.
Combined ==
    /\ last.raised = "no"
    /\ \/ last.op = "fit_data"
       \/ last.op = "add_data" /\ last.rerun_fit

\* C8, as stated: an add_data that returns has run the fit stage of each
\* child once if rerun_fit, and not at all if not.
C8_FitOncePerCall ==
    (last.op = "add_data" /\ last.raised = "no") =>
        \A c \in Children : Ran(c, "fit_data") = IF last.rerun_fit THEN 1 ELSE 0

\* C8, amended: rerun_fit reaches the children as it is. An add_data that
\* returns with rerun_fit has run the pipeline of a child given a batch once
\* and its fit stage twice, and the fit stage of a child given None once;
\* without rerun_fit it has run no stage of either child.
C8_RerunForwarded ==
    (last.op = "add_data" /\ last.raised = "no") =>
        \A c \in Children :
            /\ Ran(c, "fit_data") =
                   IF ~last.rerun_fit THEN 0 ELSE IF Given(c) THEN 2 ELSE 1
            /\ Ran(c, "calc_data") = IF last.rerun_fit /\ Given(c) THEN 1 ELSE 0
            /\ Ran(c, "calc_statistics") = Ran(c, "calc_data")

\* An add_data with rerun_fit gave the reference child a batch and the
\* interleaved child None.
C8_Witness ==
    /\ last.op = "add_data" /\ last.raised = "no" /\ last.rerun_fit
    /\ last.given_std /\ ~last.given_int
    /\ Len(rbfit_std.result_list) = 3

\* C9, as stated: when the joint records were computed, the statistics of
\* both children are those of all their retained results, and the joint
\* records hold the alphas of fits of those statistics.
C9_PipelinesRerun ==
    Combined =>
        /\ \A c \in Children : StatisticsCurrent(Child(c)) /\ FitOfStatistics(Child(c))
        /\ JointOfFits

\* The fields of an RBFitter that only add_data and calc_data touch.
Data(f) == <<f.result_list, f.nseeds, f.circ_name_type, f.raw_data, f.ydata>>

\* C9, amended: when the joint records were computed, each child's fit is a
\* fit_data on the statistics the child holds and the joint records hold the
\* alphas of these fits; an add_data with rerun_fit has made the statistics of
\* a child current if it gave the child a batch, and left them as they were
\* if it gave None; fit_data leaves the results, the seeds, the raw data and
\* the statistics of both children as they were.
C9_FitStageRerun ==
    /\ [](Combined =>
            /\ \A c \in Children : FitOfStatistics(Child(c))
            /\ JointOfFits
            /\ last.op = "add_data" =>
                   \A c \in Children : Given(c) => StatisticsCurrent(Child(c)))
    /\ [][/\ last'.op = "fit_data" =>
                 /\ Data(rbfit_std') = Data(rbfit_std)
                 /\ Data(rbfit_int') = Data(rbfit_int)
          /\ last'.op = "add_data" =>
                 /\ ~last'.given_std => Data(rbfit_std') = Data(rbfit_std)
                 /\ ~last'.given_int => Data(rbfit_int') = Data(rbfit_int)]_vars

\* fit_data computed the joint records from statistics of the reference child
\* that lack a result added without rerun_fit.
C9_Witness ==
    /\ last.op = "fit_data" /\ last.raised = "no"
    /\ Len(rbfit_std.result_list) = 3
    /\ ~StatisticsCurrent(rbfit_std)
    /\ JointOfFits

\* C10: each joint record has the alpha of the reference child's fit of the
\* pattern and, as alpha_c, that of the interleaved child's fit.
C10_JointFollowsFits == JointOfFits

(***************************************************************************)
(* Properties of the fit records.                                          *)
(***************************************************************************)
\* The dimension 2^n of a pattern of n qubits.
Dim(qubits) == IF Len(qubits) = 1 THEN 2 ELSE IF Len(qubits) = 2 THEN 4 ELSE 8

\* bound1 = (d - 1) * (|alpha - alpha_c / alpha| + (1 - alpha)) / d
Bound1(alpha, alpha_c, d) ==
    RMul(Rat(d - 1, d),
         RAdd(RAbs(RSub(alpha, RDiv(alpha_c, alpha))), RSub(RInt(1), alpha)))

\* bound2 = 2 * (d^2 - 1) * (1 - alpha) / (alpha * d^2)
\*          + 4 * sqrt(1 - alpha) * sqrt(d^2 - 1) / alpha:
\* its rational part and the square of its root part.
Bound2Rat(alpha, d) ==
    RDiv(RMul(RInt(2 * (d * d - 1)), RSub(RInt(1), alpha)), RMul(alpha, RInt(d * d)))

Bound2RootSq(alpha, d) ==
    RDiv(RMul(RInt(16 * (d * d - 1)), RSub(RInt(1), alpha)), RMul(alpha, alpha))

\* bound2 < bound1
Bound2Less(alpha, alpha_c, d) ==
    LET gap == RSub(Bound1(alpha, alpha_c, d), Bound2Rat(alpha, d))
    IN  RLess(RInt(0), gap) /\ RLess(Bound2RootSq(alpha, d), RMul(gap, gap))

\* The square of the root part of a value r + s * sqrt(c).
RootSq(x) == RMul(RMul(x.coef, x.coef), x.root)

\* x is r + sqrt(sq); x is r - sqrt(sq).
IsSum(x, r, sq) == x.rat = r /\ RootSq(x) = sq /\ ~RLess(x.coef, RInt(0))
IsDiff(x, r, sq) == x.rat = r /\ RootSq(x) = sq /\ ~RLess(RInt(0), x.coef)

\* C11: in every joint record systematic_err is the smaller of bound1 and
\* bound2 of the record's alpha and alpha_c, systematic_err_L is epc_est
\* minus it and systematic_err_R is epc_est plus it.
C11_SystematicErrIsMin ==
    \A p \in 1..Len(intfit.fit_interleaved) :
        LET rec == intfit.fit_interleaved[p]
            d == Dim(intfit.rb_pattern.val[p])
            less == Bound2Less(rec.alpha, rec.alpha_c, d)
            min_rat == IF less THEN Bound2Rat(rec.alpha, d)
                       ELSE Bound1(rec.alpha, rec.alpha_c, d)
            min_root_sq == IF less THEN Bound2RootSq(rec.alpha, d) ELSE RInt(0)
        IN  /\ IsSum(rec.systematic_err, min_rat, min_root_sq)
            /\ IsDiff(rec.systematic_err_L, RSub(rec.epc_est, min_rat), min_root_sq)
            /\ IsSum(rec.systematic_err_R, RAdd(rec.epc_est, min_rat), min_root_sq)

\* fit_data combined a reference fit without decay with an interleaved fit
\* that decays: bound2 is 0 and smaller than bound1.
C11_Witness ==
    /\ last.op = "fit_data" /\ last.raised = "no"
    /\ \E p \in 1..Len(intfit.fit_interleaved) :
           /\ intfit.fit_interleaved[p].alpha = RInt(1)
           /\ intfit.fit_interleaved[p].alpha_c = Rat(1, 2)
           /\ Bound2Less(RInt(1), Rat(1, 2), Dim(intfit.rb_pattern.val[p]))
           /\ intfit.fit_interleaved[p].systematic_err_R = intfit.fit_interleaved[p].systematic_err_L

\* (d - 1) / d * (1 - alpha_c / alpha)
EpcEst(alpha, alpha_c, d) ==
    RMul(Rat(d - 1, d), RSub(RInt(1), RDiv(alpha_c, alpha)))

\* C12: in every joint record epc_est is (nrb - 1) / nrb * (1 - alpha_c / alpha)
\* of the decay parameters of the two fits of the pattern.
C12_EpcEstOfFits ==
    \A p \in 1..Len(intfit.fit_interleaved) :
        intfit.fit_interleaved[p].epc_est =
            EpcEst(rbfit_std.fit[p].params[2], rbfit_int.fit[p].params[2],
                   Dim(intfit.rb_pattern.val[p]))

\* epc_est is that of the alpha and alpha_c the record itself holds.
EpcEstOfRecord ==
    \A p \in 1..Len(intfit.fit_interleaved) :
        intfit.fit_interleaved[p].epc_est =
            EpcEst(intfit.fit_interleaved[p].alpha, intfit.fit_interleaved[p].alpha_c,
                   Dim(intfit.rb_pattern.val[p]))

\* C13: every fit record of an RBFitter has epc = (nrb - 1) / nrb * (1 - alpha)
\* for its own alpha.
C13_EpcOfAlpha ==
    \A p \in 1..Len(rbfit.fit) :
        ~(rbfit.fit[p] = EmptyDict) =>
            rbfit.fit[p].epc =
                RMul(Rat(Dim(rbfit.rb_pattern[p]) - 1, Dim(rbfit.rb_pattern[p])),
                     RSub(RInt(1), rbfit.fit[p].params[2]))

\* fit_data_pattern fitted the two-qubit pattern: alpha = 3/4, epc = 3/16.
C13_Witness ==
    /\ last.op = "fit_data_pattern" /\ last.raised = "no"
    /\ Len(rbfit.rb_pattern[1]) = 2
    /\ rbfit.fit[1].params[2] = Rat(3, 4)
    /\ rbfit.fit[1].epc = Rat(3, 16)

(***************************************************************************)
(* Properties of the stages of RBFitter.                                   *)
(***************************************************************************)
\* The step is a fit_data_pattern(patt_ind, fit_guess) of rbfit.
FitDataPatternStep(patt_ind) ==
    /\ last'.op = "fit_data_pattern"
    /\ \E fit_guess \in Guesses, outcome \in FitOutcomes :
           /\ rbfit' = FitDataPattern(rbfit, patt_ind, fit_guess, outcome).f
           /\ last'.raised = FitDataPattern(rbfit, patt_ind, fit_guess, outcome).raised

\* C14: fit_data and fit_data_pattern leave the retained results, the seeds,
\* raw_data and ydata as they are, and fit_data_pattern(p, guess) leaves the
\* fit records of the patterns other than p as they are.
C14_FitStageOnly ==
    [][/\ last'.op \in {"fit_data", "fit_data_pattern"} => Data(rbfit') = Data(rbfit)
       /\ \A p \in 1..Len(rbfit.rb_pattern) :
              FitDataPatternStep(p) =>
                  \A q \in 1..Len(rbfit.rb_pattern) :
                      ~(q = p) => rbfit'.fit[q] = rbfit.fit[q]]_vars

\* fit_data_pattern refitted pattern 1 of two with another result than the
\* fit_data before it.
C14_Witness ==
    /\ last.op = "fit_data_pattern" /\ last.raised = "no"
    /\ Len(rbfit.rb_pattern) = 2
    /\ ~(rbfit.ydata = <<>>)
    /\ ~(rbfit.fit[2] = EmptyDict)
    /\ ~(rbfit.fit[1].params = rbfit.fit[2].params)
    /\ rbfit.fit_call[1].args.p0 \in Guesses

\* The results of a batch, in its order.
BatchList(b) == IF b = NoBatch THEN <<>> ELSE b.list

\* C15: add_data appends the results of its batch, each once and in the
\* order of the batch, to the retained results, whether or not it raises; no
\* step removes, replaces or moves a retained result, and only add_data adds.
C15_ResultsAppendOnly ==
    /\ [](\A b \in Batches :
              AddDataBegin(rbfit, b, FALSE).f.result_list
              = rbfit.result_list \o BatchList(b))
    /\ [][/\ IsPrefix(rbfit.result_list, rbfit'.result_list)
          /\ ~(last'.op = "add_data") => rbfit'.result_list = rbfit.result_list
          /\ last'.op = "add_data" =>
                 \E b \in Batches :
                     /\ last'.given = ~(b = NoBatch)
                     /\ rbfit'.result_list = rbfit.result_list \o BatchList(b)]_vars

\* The same result was added twice and is retained twice.
C15_Witness ==
    /\ last.op = "add_data" /\ last.given
    /\ rbfit.result_list = <<"seed2", "seed2">>

\* Some circuit of a known seed has no shots in the retained results.
ZeroShotCircuit(f) ==
    /\ ~(f.result_list = <<>>)
    /\ ~(Results[f.result_list[1]].results = <<>>)
    /\ \E j \in 1..Len(f.nseeds), k \in 0..(Len(f.cliff_lengths[1]) - 1) :
           Holders(f, CircName(NameType(Results[f.result_list[1]].results[1].name),
                               k, f.nseeds[j])) = {}

\* The last call was an add_data with rerun_fit that got past the check of
\* the lengths and reduced counts of which some circuit has no shots.
ReducedZeroShots ==
    /\ last.op = "add_data" /\ last.given /\ last.rerun_fit
    /\ ~SomeResultMismatches(rbfit)
    /\ ZeroShotCircuit(rbfit)

\* raw_data has a row of every seed for every pattern, each with an entry per
\* length.
RawDataComplete(f) ==
    /\ Len(f.raw_data) = Len(f.rb_pattern)
    /\ \A p \in 1..Len(f.raw_data) :
           /\ Len(f.raw_data[p]) = Len(f.nseeds)
           /\ \A j \in 1..Len(f.raw_data[p]) :
                  Len(f.raw_data[p][j]) = Len(f.cliff_lengths[p])

\* Every entry of raw_data is a finite number.
RawDataFinite(f) ==
    \A p \in 1..Len(f.raw_data) :
        \A j \in 1..Len(f.raw_data[p]) :
            \A k \in 1..Len(f.raw_data[p][j]) : XFinite(f.raw_data[p][j][k])

\* C16, as stated: counts reduction of a circuit without shots does not
\* raise; it stores a value that is not finite, and the statistics follow.
C16_ZeroShotsStored ==
    ReducedZeroShots =>
        /\ last.raised = "no"
        /\ Recomputed
        /\ ~RawDataFinite(rbfit)

\* C16, amended: counts reduction of a circuit without shots raises. No
\* value that is not finite is ever stored; raw_data is left incomplete, and
\* ydata and fit are what they were before the call.
C16_ZeroShotsRaise ==
    /\ [](/\ RawDataFinite(rbfit)
          /\ ReducedZeroShots =>
                 /\ last.raised = "ZeroShots"
                 /\ ~Recomputed
                 /\ ~RawDataComplete(rbfit))
    /\ [][last'.raised = "ZeroShots" =>
              /\ rbfit'.ydata = rbfit.ydata
              /\ rbfit'.fit = rbfit.fit]_vars

\* A result that lacks the second circuit of its seed was added to a fitter
\* with statistics, and the recompute raised.
C16_Witness ==
    /\ ReducedZeroShots
    /\ last.raised = "ZeroShots"
    /\ rbfit.result_list = <<"seed0", "mixed">>
    /\ ~(rbfit.ydata = <<>>)

\* The weights a fit of pattern p on the statistics of f is to get: the
\* standard deviations if there are any and none of them is 0, else none.
Weights(f, p) ==
    IF /\ ~(f.ydata[p].std = NoneVal)
       /\ \A k \in 1..Len(f.ydata[p].std.val) : ~(f.ydata[p].std.val[k] = Sqrt(RInt(0)))
    THEN f.ydata[p].std
    ELSE NoneVal

\* C17: the weights curve_fit is given for a pattern are the standard
\* deviations of the pattern exactly when these are not None and none of them
\* is 0; otherwise it is given no weights. After a fit_data for every pattern,
\* after a fit_data_pattern for its pattern.
C17_WeightsIffNonzeroStd ==
    /\ []((last.raised = "no" /\ InSeq("fit_data", last.calls)) =>
              \A p \in 1..Len(rbfit.rb_pattern) :
                  rbfit.fit_call[p].args.sigma = Weights(rbfit, p))
    /\ [][\A p \in 1..Len(rbfit.rb_pattern) :
              (FitDataPatternStep(p) /\ last'.raised = "no") =>
                  rbfit'.fit_call[p].args.sigma = Weights(rbfit, p)]_vars

\* A fit of two seeds that agree at the first length and differ at the
\* second: one standard deviation is 0, and the fit got no weights.
C17_Witness ==
    /\ last.raised = "no" /\ InSeq("fit_data", last.calls)
    /\ ~(rbfit.ydata[1].std = NoneVal)
    /\ rbfit.ydata[1].std.val[1] = Sqrt(RInt(0))
    /\ ~(rbfit.ydata[1].std.val[2] = Sqrt(RInt(0)))
    /\ rbfit.fit_call[1].args.sigma = NoneVal

\* A fit that got weights: some pattern's standard deviations are all nonzero.
C17_WeightsGiven ==
    /\ last.raised = "no" /\ InSeq("fit_data", last.calls)
    /\ \E p \in 1..Len(rbfit.rb_pattern) :
           /\ ~(rbfit.fit_call[p] = EmptyDict)
           /\ ~(rbfit.fit_call[p].args.sigma = NoneVal)

\* The call was an add_data that raised the error of the lengths (a ValueError
\* before any stage; curve_fit raises its ValueError within fit_data).
MismatchRaised(call) ==
    call.op = "add_data" /\ call.raised = "ValueError" /\ call.calls = <<>>

\* C18, as stated: an add_data that raises the error of the lengths leaves
\* the retained results and the seeds as they were.
C18_RejectedNotRetained ==
    [][MismatchRaised(last') =>
           /\ rbfit'.result_list = rbfit.result_list
           /\ rbfit'.nseeds = rbfit.nseeds]_vars

\* C18, amended: an add_data that raises the error of the lengths has
\* appended its batch, and a retained result that mismatches stays: from then
\* on every add_data that is given a batch raises the error again.
C18_RejectedStaysRetained ==
    /\ [](SomeResultMismatches(rbfit) =>
              \A b \in Batches \ {NoBatch}, rerun_fit \in BOOLEAN :
                  AddDataBegin(rbfit, b, rerun_fit).raised = "ValueError")
    /\ [][/\ SomeResultMismatches(rbfit) => SomeResultMismatches(rbfit')
          /\ (last'.op = "add_data" /\ last'.given /\ SomeResultMismatches(rbfit)) =>
                 MismatchRaised(last')
          /\ MismatchRaised(last') =>
                 /\ \E b \in Batches \ {NoBatch} :
                        rbfit'.result_list = rbfit.result_list \o b.list
                 /\ SomeResultMismatches(rbfit')]_vars

\* A well-formed result was added after a rejected one, and add_data raised.
C18_Witness ==
    /\ MismatchRaised(last)
    /\ rbfit.result_list = <<"short", "seed0">>
    /\ rbfit.nseeds = <<1, 0>>


(***************************************************************************)
(* Properties of the construction of InterleavedRBFitter                   *)
(***************************************************************************)
\* The results a constructed InterleavedRBFitter was given: every constructor
\* that returns was given one reference and one interleaved result.
ConstructedFrom(b_std, b_int) ==
    \A rb_pattern \in IntPatternChoices, o_std \in OriginalResults, o_int \in InterleavedResults :
        \A ocs_std \in [1..Len(PatternOrDefault(rb_pattern)) -> FitOutcomes], ocs_int \in [1..Len(PatternOrDefault(rb_pattern)) -> FitOutcomes] :
            IntInit(o_std, o_int, CliffLengths(rb_pattern), rb_pattern, ocs_std, ocs_int).raised = "no"
                => o_std = b_std /\ o_int = b_int

\* C19: right after the construction of an InterleavedRBFitter from k
\* reference and m interleaved results, the reference RBFitter retains
\* exactly k results and the interleaved RBFitter exactly m.
C19_IngestedOnce ==
    (last.op = "init" /\ ConstructedFrom(One("seed0"), One("int0"))) =>
        /\ Len(rbfit_std.result_list) = BatchLen(One("seed0"))
        /\ Len(rbfit_int.result_list) = BatchLen(One("int0"))

\* What the constructor leaves: every result it was given is retained twice,
\* the seeds once.
C19_IngestedTwice ==
    (last.op = "init" /\ ConstructedFrom(One("seed0"), One("int0"))) =>
        /\ rbfit_std.result_list = <<"seed0", "seed0">>
        /\ rbfit_int.result_list = <<"int0", "int0">>
        /\ rbfit_std.nseeds = <<0>>
        /\ rbfit_int.nseeds = <<0>>


(***************************************************************************)
(* Properties of the data of RBFitter over runs of add_data                *)
(***************************************************************************)
\* raw_data has, for every pattern, one row per known seed, and row j holds
\* the survival of the circuits of the j-th seed.
RowsOfSeeds(f) ==
    /\ RawDataComplete(f)
    /\ ~ZeroShotCircuit(f)
    /\ \A p \in 1..Len(f.rb_pattern) :
       \A j \in 1..Len(f.nseeds), k \in 1..Len(f.cliff_lengths[p]) :
           f.raw_data[p][j][k] = Survival(f, p, f.nseeds[j], k - 1)

\* ydata holds the statistics of the raw_data the fitter holds.
StatisticsOfRawData(f) ==
    /\ RawDataComplete(f)
    /\ ~(f.nseeds = <<>>)
    /\ f.ydata = CalcStatistics(f).ydata

DataOfSeeds(f) == RowsOfSeeds(f) /\ StatisticsOfRawData(f)

\* C20, as stated: an add_data that returns normally, on a fitter that holds
\* a result and whose raw_data has a row per known seed with the statistics of
\* it, leaves raw_data with a row per known seed and the statistics of it.
C20_RowPerSeed ==
    [][(/\ last'.op = "add_data" /\ last'.raised = "no"
        /\ ~(rbfit.result_list = <<>>)
        /\ DataOfSeeds(rbfit)) => DataOfSeeds(rbfit')]_vars

\* C20, amended: a constructor or an add_data that recomputed and returned
\* leaves a row per known seed and the statistics of the rows; an add_data
\* that returns recomputed exactly when it was given results with rerun_fit,
\* and otherwise leaves raw_data and ydata as they were, also when the seeds
\* grew.
C20_RowPerSeedWhenRecomputed ==
    /\ []((last.op \in {"init", "add_data"} /\ last.raised = "no" /\ Recomputed) =>
              DataOfSeeds(rbfit))
    /\ [][(last'.op = "add_data" /\ last'.raised = "no") =>
              /\ InSeq("calc_statistics", last'.calls) <=> (last'.given /\ last'.rerun_fit)
              /\ ~(last'.given /\ last'.rerun_fit) =>
                     /\ rbfit'.raw_data = rbfit.raw_data
                     /\ rbfit'.ydata = rbfit.ydata]_vars

\* A second seed was added with rerun_fit: two rows, in the order of the seeds.
C20_Witness ==
    /\ last.op = "add_data" /\ last.raised = "no" /\ Recomputed
    /\ rbfit.nseeds = <<0, 1>>
    /\ rbfit.result_list = <<"seed0", "seed1">>
    /\ Len(rbfit.raw_data[1]) = 2
    /\ ~(rbfit.raw_data[1][1] = rbfit.raw_data[1][2])

\* A second seed was added without rerun_fit: raw_data is left with one row.
C20_SeedWithoutRow ==
    /\ last.op = "add_data" /\ last.raised = "no" /\ ~last.rerun_fit
    /\ rbfit.nseeds = <<0, 1>>
    /\ Len(rbfit.raw_data) = Len(rbfit.rb_pattern)
    /\ Len(rbfit.raw_data[1]) = 1


(***************************************************************************)
(* Properties of the accessors                                             *)
(***************************************************************************)
\* C21: a read of cliff_lengths, of an RBFitter or of an
\* InterleavedRBFitter, returns, and what it returns are the lengths the
\* object was constructed with.
C21_CliffLengthsRead ==
    last.op = "cliff_lengths" =>
        /\ last.raised = "no"
        /\ last.object = "RBFitter" => last.value = rbfit.cliff_lengths
        /\ last.object = "InterleavedRBFitter" => last.value = intfit.cliff_lengths

\* What a read of cliff_lengths does, on either class: it raises
\* RecursionError and returns nothing.
C21_CliffLengthsRaises ==
    last.op = "cliff_lengths" =>
        last.raised = "RecursionError" /\ last.value = NoneVal


(***************************************************************************)
(* Properties of the guess of fit_data                                     *)
(***************************************************************************)
\* Every mean of the statistics lies in [0, 1].
MeansInUnitInterval(f) ==
    \A p \in 1..Len(f.ydata) :
        \A k \in 1..Len(f.ydata[p].mean) :
            RLeq(RInt(0), f.ydata[p].mean[k]) /\ RLeq(f.ydata[p].mean[k], RInt(1))

\* The patterns whose guess a fit_data on the statistics of f hands to
\* curve_fit: the loop ends at the first guess that curve_fit refuses.
GuessesHanded(f) ==
    {p \in 1..Len(f.ydata) : \A q \in 1..(p - 1) : Feasible(FitGuess(f, q))}

\* C22: when fit_data ran on statistics with means in [0, 1], every guess
\* (A0, alpha0, B0) it handed to curve_fit lies in the box: A0 in [-2, 2],
\* alpha0 in [0, 1], B0 in [-2, 2].
C22_GuessInBox ==
    (InSeq("fit_data", last.calls) /\ MeansInUnitInterval(rbfit)) =>
        \A p \in GuessesHanded(rbfit) :
            LET fit_guess == FitGuess(rbfit, p)
            IN  /\ XFinite(fit_guess[1]) /\ XFinite(fit_guess[2]) /\ XFinite(fit_guess[3])
                /\ RLeq(RInt(-2), fit_guess[1]) /\ RLeq(fit_guess[1], RInt(2))
                /\ RLeq(RInt(0), fit_guess[2]) /\ RLeq(fit_guess[2], RInt(1))
                /\ RLeq(RInt(-2), fit_guess[3]) /\ RLeq(fit_guess[3], RInt(2))

\* What fit_data does with statistics in [0, 1]: it raises curve_fit's
\* ValueError exactly when a guess it handed over lies outside the box.
C22_InfeasibleGuessRaises ==
    (InSeq("fit_data", last.calls) /\ ~(rbfit.ydata = <<>>)) =>
        /\ MeansInUnitInterval(rbfit)
        /\ last.raised = "ValueError" <=>
               \E p \in GuessesHanded(rbfit) : ~Feasible(FitGuess(rbfit, p))

\* A fit_data on means 1 and 0 of a one-qubit pattern: alpha0 is -1.
C22_GuessOutside ==
    /\ InSeq("fit_data", last.calls)
    /\ \E p \in GuessesHanded(rbfit) :
           /\ rbfit.ydata[p].mean = <<RInt(1), RInt(0)>>
           /\ FitGuess(rbfit, p) = <<Rat(-1, 2), RInt(-1), Rat(1, 2)>>


(***************************************************************************)
(* Properties of the constructor of InterleavedRBFitter                    *)
(***************************************************************************)
\* The last call was a constructor of InterleavedRBFitter that was given one
\* reference and one interleaved result and the pattern argument rb_pattern.
ConstructedWith(rb_pattern) ==
    /\ last.op = "init"
    /\ last.given_std /\ last.given_int
    /\ last.rb_pattern = rb_pattern

\* C23: a constructor of InterleavedRBFitter without a pattern argument
\* returns, and leaves exactly one joint record, computed with nrb = 2:
\* epc_est = 1/2 * (1 - alpha_c / alpha).
C23_DefaultPattern ==
    ConstructedWith(NoneVal) =>
        /\ last.raised = "no"
        /\ Len(intfit.fit_interleaved) = 1
        /\ intfit.fit_interleaved[1].epc_est
           = RMul(Rat(1, 2),
                  RSub(RInt(1), RDiv(intfit.fit_interleaved[1].alpha_c,
                                     intfit.fit_interleaved[1].alpha)))

\* What the constructor does without a pattern argument: the two RBFitter
\* objects are built and fitted on [[0]], then it raises TypeError and no
\* object is bound.
C23_NoPatternRaises ==
    ConstructedWith(NoneVal) =>
        /\ last.raised = "TypeError"
        /\ intfit = NoObject
        /\ InSeq(<<"rbfit_std", "fit_data">>, last.calls)
        /\ InSeq(<<"rbfit_int", "fit_data">>, last.calls)

\* With [[0]] given the constructor returns, with one record of nrb = 2.
C23_ExplicitPattern ==
    /\ ConstructedWith(Patterns(<<<<0>>>>))
    /\ last.raised = "no"
    /\ Len(intfit.fit_interleaved) = 1
    /\ intfit.fit_interleaved[1].epc_est
       = RMul(Rat(1, 2),
              RSub(RInt(1), RDiv(intfit.fit_interleaved[1].alpha_c,
                                 intfit.fit_interleaved[1].alpha)))

====
